---- MODULE Spec2Model ----
(***************************************************************************)
(* scripts/fetch_financials.py: one invocation of the script.  The process *)
(* checks its argument count, normalises the symbol, asks the provider     *)
(* (yf.Ticker(...).info) once, maps the response into the output record,   *)
(* prints one JSON line and exits.                                         *)
(*                                                                         *)
(* Python values are tagged records: None, numbers, the non-finite float   *)
(* and strings (sequences of one-character strings).  A number n stands    *)
(* for n units of the provider's smallest fraction, so that "* 100" is     *)
(* integer multiplication.                                                 *)
(***************************************************************************)
EXTENDS Integers, Sequences, FiniteSets, TLC

VARIABLES argv, pc, symbol, yahoo_symbol, requests, info, exc, stdout, stderr, status

vars == <<argv, pc, symbol, yahoo_symbol, requests, info, exc, stdout, stderr, status>>

(* ---------------------------- bounds ---------------------------------- *)
MaxSymLen == 3
MaxArgs == 2
MaxPresent == 2

(* ------------------------- Python values ------------------------------ *)
None == [t |-> "None"]
Num(n) == [t |-> "num", n |-> n]
Inf == [t |-> "inf"]
Str(s) == [t |-> "str", s |-> s]

\* bool(v): None, 0 and "" are false, everything else (inf included) is true
Truthy(v) ==
    CASE v.t = "None" -> FALSE
      [] v.t = "num" -> v.n # 0
      [] v.t = "inf" -> TRUE
      [] v.t = "str" -> Len(v.s) > 0

\* a or b
PyOr(a, b) == IF Truthy(a) THEN a ELSE b

\* v * 100 on a float
Times100(v) == IF v.t = "num" THEN Num(v.n * 100) ELSE v

(* --------------------------- symbols ---------------------------------- *)
Alphabet == {".", "T"}
Suffix == <<".", "T">>

RECURSIVE SeqsUpTo(_)
SeqsUpTo(n) ==
    IF n = 0 THEN {<<>>}
    ELSE LET P == SeqsUpTo(n - 1)
         IN  P \cup {Append(s, c) : s \in {p \in P : Len(p) = n - 1}, c \in Alphabet}

Symbols == SeqsUpTo(MaxSymLen)

\* sub in s
Contains(s, sub) ==
    \E i \in 1..(Len(s) - Len(sub) + 1) : SubSeq(s, i, i + Len(sub) - 1) = sub

\* symbol if '.T' in symbol else f"{symbol}.T"
Normalize(s) == IF Contains(s, Suffix) THEN s ELSE s \o Suffix

(* ----------------------- provider responses --------------------------- *)
NameKeys == {"longName", "shortName"}
PctKeys == {"dividendYield", "returnOnEquity", "operatingMargins", "profitMargins"}
PlainKeys == {"marketCap", "trailingPE", "forwardPE", "priceToBook", "trailingEps",
              "debtToEquity", "currentRatio", "totalRevenue", "netIncomeToCommon",
              "totalAssets", "totalDebt", "totalStockholdersEquity"}
Keys == NameKeys \cup PctKeys \cup PlainKeys

\* the values a key may carry when present: names are strings (possibly empty),
\* fundamentals are floats (zero, non-zero, non-finite)
LongNames == {Str(<<>>), Str(<<"L">>)}
ShortNames == {Str(<<>>), Str(<<"S">>)}
NumValues == {Num(0), Num(2), Inf}
ValuesOf(k) ==
    IF k = "longName" THEN LongNames
    ELSE IF k = "shortName" THEN ShortNames
    ELSE NumValues

EmptyDict == [k \in Keys |-> None]

\* the dicts in which at most n keys carry a value
RECURSIVE DictsUpTo(_)
DictsUpTo(n) ==
    IF n = 0 THEN {EmptyDict}
    ELSE LET P == DictsUpTo(n - 1)
         IN  P \cup {[d EXCEPT ![v[1]] = v[2]] :
                        d \in P, v \in UNION {{<<k, x>> : x \in ValuesOf(k)} : k \in Keys}}

\* the dicts the provider may return: at most MaxPresent keys carry a value
Dicts == DictsUpTo(MaxPresent)

\* info.get(k)
Get(d, k) == d[k]

\* messages of the exceptions the lookup raises
ProviderErrors == {"not found", "network"}
AttributeErrorMessage == "'NoneType' object has no attribute 'get'"
UsageMessage == "specify a stock code"

(* ----------------------- the records written -------------------------- *)
\* info.get(k) * 100 if info.get(k) else None
Pct(d, k) == IF Truthy(Get(d, k)) THEN Times100(Get(d, k)) ELSE None

\* mutant: the fallback to the input symbol is forgotten
CompanyName_NoFallback(s, d) == PyOr(Get(d, "longName"), Get(d, "shortName"))

\* info.get('longName') or info.get('shortName') or symbol
CompanyName(s, d) == PyOr(PyOr(Get(d, "longName"), Get(d, "shortName")), Str(s))

\* info.get('trailingPE') or info.get('forwardPE')
Per(d) == PyOr(Get(d, "trailingPE"), Get(d, "forwardPE"))

\* info.get(k)
Plain(d, k) == Get(d, k)

\* mutant: the record reports the normalised lookup symbol
SymbolField_Normalized(s, ys) == ys

\* the symbol field of both records
SymbolField(s, ys) == s

FinancialData(s, ys, d) ==
    [symbol |-> SymbolField(s, ys),
     companyName |-> CompanyName(s, d),
     marketCap |-> Plain(d, "marketCap"),
     per |-> Per(d),
     pbr |-> Plain(d, "priceToBook"),
     eps |-> Plain(d, "trailingEps"),
     dividendYield |-> Pct(d, "dividendYield"),
     roe |-> Pct(d, "returnOnEquity"),
     debtToEquity |-> Plain(d, "debtToEquity"),
     currentRatio |-> Plain(d, "currentRatio"),
     operatingMargin |-> Pct(d, "operatingMargins"),
     profitMargin |-> Pct(d, "profitMargins"),
     revenue |-> Plain(d, "totalRevenue"),
     netIncome |-> Plain(d, "netIncomeToCommon"),
     totalAssets |-> Plain(d, "totalAssets"),
     totalDebt |-> Plain(d, "totalDebt"),
     shareholdersEquity |-> Plain(d, "totalStockholdersEquity")]

ErrorData(msg, s, ys) ==
    [error |-> TRUE, message |-> msg, symbol |-> SymbolField(s, ys)]

UsageError == [error |-> TRUE, message |-> UsageMessage]

(* ----------------------------- state ---------------------------------- *)
\* arguments after the first are never read (only len(sys.argv) is)
OtherArgs == {<<"T">>, <<".", "T">>}

RECURSIVE ArgLists(_)
ArgLists(n) ==
    IF n = 0 THEN {<<>>}
    ELSE IF n = 1 THEN {<<>>} \cup {<<s>> : s \in Symbols}
    ELSE LET P == ArgLists(n - 1)
         IN  P \cup {Append(a, s) : a \in {p \in P : Len(p) = n - 1}, s \in OtherArgs}

NoInfo == [kind |-> "unset", d |-> EmptyDict]

\* argv holds the arguments after the script name: len(sys.argv) = Len(argv) + 1
Init ==
    /\ argv \in ArgLists(MaxArgs)
    /\ pc = "main"
    /\ symbol = <<>>
    /\ yahoo_symbol = <<>>
    /\ requests = <<>>
    /\ info = NoInfo
    /\ exc = <<>>
    /\ stdout = <<>>
    /\ stderr = <<>>
    /\ status = <<>>

(* ---------------------------- actions --------------------------------- *)
\* mutant: the usage error exits with status 0
MainUsage_ExitZero ==
    /\ pc = "main"
    /\ Len(argv) + 1 # 2
    /\ stderr' = Append(stderr, UsageError)
    /\ status' = <<0>>
    /\ pc' = "exited"
    /\ UNCHANGED <<argv, symbol, yahoo_symbol, requests, info, exc, stdout>>

\* if len(sys.argv) != 2: print(usage, file=sys.stderr); sys.exit(1)
MainUsage ==
    /\ pc = "main"
    /\ Len(argv) + 1 # 2
    /\ stderr' = Append(stderr, UsageError)
    /\ status' = <<1>>
    /\ pc' = "exited"
    /\ UNCHANGED <<argv, symbol, yahoo_symbol, requests, info, exc, stdout>>

\* symbol = sys.argv[1]; get_financial_data(symbol) up to the normalisation
MainCall ==
    /\ pc = "main"
    /\ Len(argv) + 1 = 2
    /\ symbol' = argv[1]
    /\ yahoo_symbol' = Normalize(argv[1])
    /\ pc' = "lookup"
    /\ UNCHANGED <<argv, requests, info, exc, stdout, stderr, status>>

\* ticker = yf.Ticker(yahoo_symbol); info = ticker.info  -- returns a dict
LookupReturns ==
    /\ pc = "lookup"
    /\ requests' = Append(requests, yahoo_symbol)
    /\ \E d \in Dicts : info' = [kind |-> "dict", d |-> d]
    /\ pc' = "map"
    /\ UNCHANGED <<argv, symbol, yahoo_symbol, exc, stdout, stderr, status>>

\* ... returns something that is no dict (None)
LookupReturnsNone ==
    /\ pc = "lookup"
    /\ requests' = Append(requests, yahoo_symbol)
    /\ info' = [kind |-> "none", d |-> EmptyDict]
    /\ pc' = "map"
    /\ UNCHANGED <<argv, symbol, yahoo_symbol, exc, stdout, stderr, status>>

\* ... raises an Exception
LookupRaises ==
    /\ pc = "lookup"
    /\ requests' = Append(requests, yahoo_symbol)
    /\ \E m \in ProviderErrors : exc' = <<m>>
    /\ pc' = "except"
    /\ UNCHANGED <<argv, symbol, yahoo_symbol, info, stdout, stderr, status>>

\* financial_data = {...}; print(json.dumps(financial_data)); return 0, which
\* sys.exit(get_financial_data(symbol)) turns into the exit status
MapAndPrint ==
    /\ pc = "map"
    /\ info.kind = "dict"
    /\ stdout' = Append(stdout, FinancialData(symbol, yahoo_symbol, info.d))
    /\ status' = <<0>>
    /\ pc' = "exited"
    /\ UNCHANGED <<argv, symbol, yahoo_symbol, requests, info, exc, stderr>>

\* info.get(...) on a response that is no dict raises AttributeError
MapRaises ==
    /\ pc = "map"
    /\ info.kind # "dict"
    /\ exc' = <<AttributeErrorMessage>>
    /\ pc' = "except"
    /\ UNCHANGED <<argv, symbol, yahoo_symbol, requests, info, stdout, stderr, status>>

\* mutant: the error record is printed without file=sys.stderr
Except_ToStdout ==
    /\ pc = "except"
    /\ stdout' = Append(stdout, ErrorData(exc[1], symbol, yahoo_symbol))
    /\ status' = <<1>>
    /\ pc' = "exited"
    /\ UNCHANGED <<argv, symbol, yahoo_symbol, requests, info, exc, stderr>>

\* mutant: the handler lacks its return 1, and sys.exit(None) is status 0
Except_ExitZero ==
    /\ pc = "except"
    /\ stderr' = Append(stderr, ErrorData(exc[1], symbol, yahoo_symbol))
    /\ status' = <<0>>
    /\ pc' = "exited"
    /\ UNCHANGED <<argv, symbol, yahoo_symbol, requests, info, exc, stdout>>

\* mutant: the handler retries the lookup once before reporting
Except_Retry ==
    /\ pc = "except"
    /\ IF Len(requests) < 2
       THEN /\ pc' = "lookup"
            /\ UNCHANGED <<stderr, status>>
       ELSE /\ stderr' = Append(stderr, ErrorData(exc[1], symbol, yahoo_symbol))
            /\ status' = <<1>>
            /\ pc' = "exited"
    /\ UNCHANGED <<argv, symbol, yahoo_symbol, requests, info, exc, stdout>>

\* except Exception as e: print(json.dumps(error_data), file=sys.stderr); return 1,
\* which sys.exit(get_financial_data(symbol)) turns into the exit status
Except ==
    /\ pc = "except"
    /\ stderr' = Append(stderr, ErrorData(exc[1], symbol, yahoo_symbol))
    /\ status' = <<1>>
    /\ pc' = "exited"
    /\ UNCHANGED <<argv, symbol, yahoo_symbol, requests, info, exc, stdout>>

Next ==
    \/ MainUsage
    \/ MainCall
    \/ LookupReturns
    \/ LookupReturnsNone
    \/ LookupRaises
    \/ MapAndPrint
    \/ MapRaises
    \/ Except

Spec == Init /\ [][Next]_vars

(* ============================ properties ============================== *)
NumericFields == {"marketCap", "per", "pbr", "eps", "dividendYield", "roe", "debtToEquity",
                  "currentRatio", "operatingMargin", "profitMargin", "revenue", "netIncome",
                  "totalAssets", "totalDebt", "shareholdersEquity"}
FinancialFields == {"symbol", "companyName"} \cup NumericFields

IsFinancialRecord(r) == DOMAIN r = FinancialFields
IsErrorRecord(r) == DOMAIN r = {"error", "message", "symbol"}

\* v is a finite number (what JSON can carry as a number)
IsFinite(v) == v.t = "num"

\* s ends with sub: s carries the suffix
EndsWith(s, sub) ==
    /\ Len(s) >= Len(sub)
    /\ SubSeq(s, Len(s) - Len(sub) + 1, Len(s)) = sub

OneArgument == Len(argv) = 1
Emitted == stdout # <<>>
\* the provider's value under key k in the response of this invocation
Provided(k) == info.d[k]

\* C1: when the lookup or the field mapping raises, the ErrorRecord {error: true,
\* message, symbol} carrying the exception's text goes to standard error, the exit
\* status is 1, and nothing is ever written to standard output.
C1_FailureYieldsErrorRecord ==
    exc # <<>> =>
        /\ stdout = <<>>
        /\ pc = "exited" =>
              /\ stderr = <<[error |-> TRUE, message |-> exc[1], symbol |-> argv[1]]>>
              /\ status = <<1>>

\* a mapping failure (the response is no dict) that has run to the exit
C1_Witness ==
    /\ pc = "exited"
    /\ info.kind = "none"
    /\ exc = <<AttributeErrorMessage>>
    /\ stderr # <<>>

\* C2: a one-argument invocation that has exited wrote exactly one record: a
\* FinancialRecord on standard output with status 0, or an ErrorRecord on standard
\* error with status 1; never both, never neither, and status 0 exactly when the
\* FinancialRecord was written.
C2_ExactlyOneRecord ==
    /\ OneArgument => Len(stdout) + Len(stderr) <= 1
    /\ (OneArgument /\ pc = "exited") =>
          /\ \/ /\ Len(stdout) = 1 /\ IsFinancialRecord(stdout[1])
                /\ stderr = <<>>
                /\ status = <<0>>
             \/ /\ Len(stderr) = 1 /\ IsErrorRecord(stderr[1])
                /\ stdout = <<>>
                /\ status = <<1>>
          /\ (status = <<0>>) <=> (Len(stdout) = 1 /\ IsFinancialRecord(stdout[1]))

\* an exited invocation of each kind exists; this one failed in the lookup
C2_Witness ==
    /\ pc = "exited"
    /\ OneArgument
    /\ exc \in {<<m>> : m \in ProviderErrors}
    /\ status = <<1>>

\* C3 (as stated): a symbol that does not end in ".T" is looked up with ".T"
\* appended, a symbol that ends in ".T" is looked up unchanged.
C3_SuffixNormalization ==
    requests # <<>> =>
        requests[1] = IF EndsWith(argv[1], Suffix) THEN argv[1] ELSE argv[1] \o Suffix

\* C4 (as stated): each percentage field is the provider's fraction times 100 when
\* the fraction is present, and is absent exactly when the fraction is absent.
C4_PercentScaled ==
    Emitted =>
        \A p \in {<<"dividendYield", "dividendYield">>, <<"roe", "returnOnEquity">>,
                  <<"operatingMargin", "operatingMargins">>,
                  <<"profitMargin", "profitMargins">>} :
            /\ Provided(p[2]) # None => stdout[1][p[1]] = Times100(Provided(p[2]))
            /\ (stdout[1][p[1]] = None) <=> (Provided(p[2]) = None)

\* C5 (as stated): per is trailingPE whenever it is present, whatever its value;
\* otherwise forwardPE when present; otherwise absent.
C5_PerTrailingFirst ==
    Emitted =>
        stdout[1].per = IF Provided("trailingPE") # None THEN Provided("trailingPE")
                        ELSE Provided("forwardPE")

\* C6 (as stated): companyName is longName whenever it is present, otherwise
\* shortName when present, otherwise the original input symbol.
C6_CompanyNamePresent ==
    Emitted =>
        stdout[1].companyName =
            IF Provided("longName") # None THEN Provided("longName")
            ELSE IF Provided("shortName") # None THEN Provided("shortName")
            ELSE Str(argv[1])

NonEmptyName(v) == v # None /\ v # Str(<<>>)

\* C6 (amended): companyName is longName whenever it is present and not empty,
\* otherwise shortName when present and not empty, otherwise the original input
\* symbol (not the normalised lookup symbol).
C6_CompanyNameNonEmpty ==
    Emitted =>
        stdout[1].companyName =
            IF NonEmptyName(Provided("longName")) THEN Provided("longName")
            ELSE IF NonEmptyName(Provided("shortName")) THEN Provided("shortName")
            ELSE Str(argv[1])

\* the provider gave no usable name for a symbol that had to be normalised
C6_Witness ==
    /\ Emitted
    /\ Provided("longName") = Str(<<>>)
    /\ Provided("shortName") = None
    /\ requests[1] # argv[1]
    /\ stdout[1].companyName = Str(argv[1])

\* C7: with zero or with two or more arguments the usage error object goes to
\* standard error, the exit status is 1, and no lookup is ever attempted.
C7_UsageError ==
    ~OneArgument =>
        /\ requests = <<>>
        /\ stdout = <<>>
        /\ pc \in {"main", "exited"}
        /\ pc = "exited" =>
              /\ stderr = <<[error |-> TRUE, message |-> UsageMessage]>>
              /\ status = <<1>>

\* an exited invocation with two arguments
C7_Witness ==
    /\ Len(argv) = 2
    /\ pc = "exited"
    /\ stderr # <<>>

\* C8 (as stated): every numeric field of an emitted FinancialRecord is a finite
\* number or null.
C8_FiniteOrAbsent ==
    Emitted => \A f \in NumericFields : stdout[1][f] = None \/ IsFinite(stdout[1][f])

\* C9: the symbol field of the FinancialRecord and of the ErrorRecord is the
\* command-line argument as given, with or without the suffix.
C9_SymbolUnmodified ==
    OneArgument =>
        /\ Emitted => stdout[1].symbol = argv[1]
        /\ stderr # <<>> => stderr[1].symbol = argv[1]

\* a record was written for a symbol whose lookup used the suffixed form
C9_Witness ==
    /\ OneArgument
    /\ Emitted
    /\ requests = <<argv[1] \o Suffix>>
    /\ stdout[1].symbol = argv[1]

Written == Len(stdout) + Len(stderr)

\* steps left at most until the exit
Rank(p) ==
    CASE p = "main" -> 4
      [] p = "lookup" -> 3
      [] p = "map" -> 2
      [] p = "except" -> 1
      [] p = "exited" -> 0

\* C10: a one-argument invocation attempts exactly one lookup, before its single
\* write; a failed lookup is never repeated; and the process terminates with
\* status 0 or 1: until it has exited a step is always enabled, every step brings
\* the exit strictly nearer, and the exited process has status 0 or 1.
C10_OneLookupThenExit ==
    /\ [](OneArgument => /\ Len(requests) <= 1
                         /\ Written <= 1
                         /\ Written = 1 => Len(requests) = 1
                         /\ pc = "exited" => /\ Len(requests) = 1
                                             /\ Written = 1
                                             /\ status \in {<<0>>, <<1>>}
                         /\ pc # "exited" => ENABLED Next)
    /\ [][OneArgument =>
            /\ Rank(pc') < Rank(pc)
            /\ requests' # requests => Written = 0 /\ requests = <<>>
            /\ Written' # Written => Len(requests) = 1]_vars

\* the lookup raised and the process still reached its exit after one request
C10_Witness ==
    /\ OneArgument
    /\ pc = "exited"
    /\ exc \in {<<m>> : m \in ProviderErrors}
    /\ Len(requests) = 1
====
